---- MODULE Spec2Model ----
(***************************************************************************)
(* pkg-testing-tool: the build-matrix driver of src/pkg_testing_tool/main.py *)
(* as a state machine.  One behaviour is one invocation of pkg_testing_tool: *)
(* the flag source is queried, the two operation-scoped overlay files are    *)
(* acquired and written, run_testing is called once per sampled combination  *)
(* (and once more for the default pass), the overlays are released, and the  *)
(* verdict, the report and the process exit status are produced.             *)
(***************************************************************************)
EXTENDS Integers, Sequences, FiniteSets, TLC

\* ------------------------------------------------------------------ bounds
\* --max-use-combinations: the most combinations the flag source returns.
MaxCombos == 2
\* The external build command returns an exit status in 0..MaxExit.
MaxExit == 1

\* ----------------------------------------------------------------- strings
\* A string is a sequence of pieces; SP and NL are the whitespace pieces, any
\* other piece is a run of non-whitespace characters.  Adjacent non-whitespace
\* pieces belong to the same word ("test" followed by "-fail-continue" is the
\* single word test-fail-continue).
SP == " "
NL == "\n"

IsSpace(c) == c \in {SP, NL}

\* " ".join(words)
RECURSIVE JoinSp(_)
JoinSp(words) ==
    IF words = <<>> THEN <<>>
    ELSE IF Len(words) = 1 THEN <<words[1]>>
    ELSE <<words[1], SP>> \o JoinSp(Tail(words))

\* str.split(): the maximal runs of non-whitespace pieces, in order; each word
\* is the sequence of the pieces it is made of.
RECURSIVE SplitFrom(_, _, _)
SplitFrom(s, i, cur) ==
    IF i > Len(s)
    THEN IF cur = <<>> THEN <<>> ELSE <<cur>>
    ELSE IF IsSpace(s[i])
         THEN IF cur = <<>> THEN SplitFrom(s, i + 1, <<>>)
              ELSE <<cur>> \o SplitFrom(s, i + 1, <<>>)
         ELSE SplitFrom(s, i + 1, Append(cur, s[i]))

Split(s) == SplitFrom(s, 1, <<>>)

\* word in s.split()
InSplit(word, s) == \E i \in 1..Len(Split(s)) : Split(s)[i] = <<word>>

\* ------------------------------------------------------------ program data
\* args.package, a valid atom; and the three directories under /etc/portage.
Package == "=app-misc/foo-1.0"
AcceptKeywords == "package.accept_keywords"
Unmask == "package.unmask"
PackageUse == "package.use"
Categories == {AcceptKeywords, Unmask, PackageUse}

Policies == {"once", "always", "never"}
Scopes == {"local", "global"}

\* The flag combinations the flag source may return for a package that
\* declares the flags a and b: non-empty sequences of flag tokens.
FlagSets == {<<"a", "-b">>, <<"-a">>}

\* The FEATURES values the process may inherit: has = FALSE is an environment
\* without FEATURES.
InheritedFeatures ==
    { [has |-> FALSE, val |-> <<>>],
      [has |-> TRUE, val |-> <<"ccache">>],
      [has |-> TRUE, val |-> <<"test", "-fail-continue">>],
      [has |-> TRUE, val |-> <<"ccache", SP, "test">>] }

\* What may lie in the directories before the tool starts: files an earlier,
\* killed invocation left behind (name 0; the tool's own files are numbered
\* from 1 in the order it creates them).
StaleFile(d) == [dir |-> d, name |-> 0, data |-> <<Package, SP, "stale">>]
StaleChoices == { {}, {StaleFile(AcceptKeywords), StaleFile(PackageUse)} }

\* The directory sets the tool may find.
DirChoices == SUBSET Categories


\* ------------------------------------------------------------------- state
VARIABLES
    args,                  \* the parsed command line: test_feature_scope, use_flags_scope, report
    environ,               \* os.environ of the tool: its FEATURES entry
    dirs,                  \* the directories that exist under /etc/portage
    fs,                    \* the files in those directories: [dir, name, data]
    fs0,                   \* the files that were there when the tool started
    open,                  \* the open NamedTemporaryFile objects: [dir, name, buf]
    nextName,              \* the number the next temporary file is named by
    iuse,                  \* the declared flags get_package_flags returned
    use_combinations,      \* [none: use_combinations is None, list: the combinations]
    results,               \* the results list of Run Records
    use_combinations_pass, \* the loop counter of the combination loop
    flags_set,             \* run_testing's flags_set
    test_feature_toggle,   \* run_testing's test_feature_toggle
    ret,                   \* the call site run_testing returns to: "loop" or "default"
    env,                   \* run_testing's env: the FEATURES entry of the copy
    emerge_result,         \* {} or {returncode} of the last subprocess.run
    cmds,                  \* every external command started: [cmdline, env, fs, rc]
    failures,              \* the failures list
    report_file,           \* the report file: [written: times written, data: its array]
    stdout,                \* the lines printed
    exc,                   \* TRUE while an exception unwinds the with blocks
    oserror,               \* the OSErrors raised by file operations: [op, dir]
    exit_status,           \* {} while the process runs, {status} once it has exited
    pc                     \* the statement the process is at

vars == <<args, environ, dirs, fs, fs0, open, nextName, iuse, use_combinations,
          results, use_combinations_pass, flags_set, test_feature_toggle, ret,
          env, emerge_result, cmds, failures, report_file, stdout, exc,
          oserror, exit_status, pc>>

\* Groups of variables an action leaves alone.
inputVars == <<args, environ, dirs, fs0>>
sourceVars == <<iuse, use_combinations>>
fileVars == <<fs, open, nextName>>
runVars == <<flags_set, test_feature_toggle, ret, env, emerge_result>>
endVars == <<failures, report_file, exit_status>>

\* ----------------------------------------------------------------- helpers
\* print(...) of one line; flags, n and total are the values it formats.
Line(kind, flags, n, total) == [kind |-> kind, flags |-> flags, n |-> n, total |-> total]

\* Python truth of use_combinations: None and the empty list are false.
Truthy(uc) == ~uc.none /\ uc.list # <<>>

\* cp of the atom, and the emerge command line of run_testing.
Cp == "app-misc/foo"
emerge_cmdline ==
    <<"emerge", "--verbose", "y", "--autounmask", "n", "--usepkg-exclude", Cp, Package>>

\* The open temporary file of directory d.
Handle(d) == CHOOSE h \in open : h.dir = d

\* NamedTemporaryFile(dir=d): a new, empty, uniquely named file and its object.
Created(files, d, n) == files \cup {[dir |-> d, name |-> n, data |-> <<>>]}
Opened(handles, d, n) == handles \cup {[dir |-> d, name |-> n, buf |-> <<>>]}

\* fd.write(s): s goes to the object's buffer.
Written(handles, h, s) == (handles \ {h}) \cup {[h EXCEPT !.buf = @ \o s]}

\* A flush() that is missing: the buffer stays where it is.
FlushedFiles_Lost(files, h) == files

\* fd.flush(): the buffer goes to the file.
FlushedFiles(files, h) ==
    { IF f.dir = h.dir /\ f.name = h.name THEN [f EXCEPT !.data = @ \o h.buf] ELSE f
      : f \in files }
FlushedHandles(handles, h) == (handles \ {h}) \cup {[h EXCEPT !.buf = <<>>]}

\* NamedTemporaryFile(delete=False): closing leaves the file where it is.
ClosedFiles_Leak(files, h) == files

\* Leaving the with block: the object is closed and its file deleted.
ClosedFiles(files, h) == { f \in files : ~(f.dir = h.dir /\ f.name = h.name) }
ClosedHandles(handles, h) == handles \ {h}


\* ------------------------------------------------- the flag source (use.py)
\* get_use_combinations(iuse, ruse, max): an ordered sequence of at most max
\* combinations.
SeqsUpTo(S, n) == UNION { [1..k -> S] : k \in 0..n }
UseCombinations(declared, max) == SeqsUpTo(FlagSets, max)

\* ------------------------------------------------------------- run_testing
\* The feature string of lines 105-108.
SafetyFeatures ==
    <<"multilib-strict", SP, "collision-protect", SP, "sandbox", SP, "userpriv", SP,
      "usersandbox">>

Features(toggle) ==
    IF toggle THEN SafetyFeatures \o <<SP>> \o <<"test">> ELSE SafetyFeatures

\* Line 113 on both branches: the inherited value is replaced.
ComposedFeatures_Replaces(inherited, toggle) == Features(toggle)

\* env['FEATURES'] of lines 110-113, from the inherited entry.
ComposedFeatures(inherited, toggle) ==
    IF inherited.has THEN inherited.val \o <<SP>> \o Features(toggle)
    ELSE Features(toggle)

\* Line 119 without its condition: the atom is the selector under any scope.
UseLine_IgnoresScope(scope, flags) == <<Package>> \o <<SP>> \o JoinSp(flags) \o <<NL>>

\* The line of lines 117-122.
UseLine(scope, flags) ==
    <<(IF scope = "global" THEN "*/*" ELSE Package)>> \o <<SP>> \o JoinSp(flags) \o <<NL>>

\* Line 131 without split(): 'test' in env['FEATURES'], a substring test.
RunRecord_Substring(flags, returncode, features) ==
    [flags |-> flags, exit_code |-> returncode,
     test_feature |-> \E i \in 1..Len(features) : features[i] = "test"]

\* The dictionary of lines 128-132.
RunRecord(flags, returncode, features) ==
    [flags |-> flags, exit_code |-> returncode, test_feature |-> InSplit("test", features)]

\* -------------------------------------------------------- pkg_testing_tool
\* Line 170 never taken: no combination run enables the tests.
MatrixToggle_Never(policy) == FALSE

\* test_feature_toggle of the combination loop, lines 169-172.
MatrixToggle(policy) == policy = "always"

\* Line 187 without its condition: the default pass always enables the tests.
DefaultToggle_Unconditional(policy) == TRUE

\* Line 187 testing for 'once' alone.
DefaultToggle_OnceOnly(policy) == policy = "once"

\* test_feature_toggle of the default pass, lines 187-190.
DefaultToggle(policy) == policy \in {"once", "always"}

\* Line 192 without its second disjunct: no default pass after combinations.
NeedDefaultPass_NoOnce(uc, policy) == ~Truthy(uc)

\* Line 192 testing the policy as line 187 does: a default pass under 'always'
\* too.
NeedDefaultPass_AlsoAlways(uc, policy) == ~Truthy(uc) \/ policy \in {"once", "always"}

\* The condition of line 192.
NeedDefaultPass(uc, policy) == ~Truthy(uc) \/ policy = "once"

\* The loop of lines 198-200 left at the first failure it finds.
Failures_StopAtFirst(rs) ==
    IF SelectSeq(rs, LAMBDA entry : entry.exit_code # 0) = <<>> THEN <<>>
    ELSE <<Head(SelectSeq(rs, LAMBDA entry : entry.exit_code # 0))>>

\* The failures of lines 197-200.
Failures(rs) == SelectSeq(rs, LAMBDA entry : entry.exit_code # 0)

\* The lines of lines 207-208.
FailureLines(fl) == [i \in 1..Len(fl) |-> Line("failed", fl[i].flags, 0, 0)]

\* ------------------------------------------------------------------- Init
Init ==
    /\ args \in [test_feature_scope : Policies, use_flags_scope : Scopes,
                 report : BOOLEAN]
    /\ environ \in InheritedFeatures
    /\ dirs \in DirChoices
    /\ fs \in StaleChoices
    /\ \A f \in fs : f.dir \in dirs
    /\ fs0 = fs
    /\ open = {}
    /\ nextName = 1
    /\ iuse = {}
    /\ use_combinations = [none |-> TRUE, list |-> <<>>]
    /\ results = <<>>
    /\ use_combinations_pass = 0
    /\ flags_set = <<>>
    /\ test_feature_toggle = FALSE
    /\ ret = "none"
    /\ env = <<>>
    /\ emerge_result = {}
    /\ cmds = <<>>
    /\ failures = <<>>
    /\ report_file = [written |-> 0, data |-> <<>>]
    /\ stdout = <<>>
    /\ exc = FALSE
    /\ oserror = <<>>
    /\ exit_status = {}
    /\ pc = "sample"


\* ---------------------------------------------------------------- actions
\* Lines 137-147: the flag source is asked for the declared flags and, when
\* there are any, for the combinations.
Sample ==
    /\ pc = "sample"
    /\ \E declared \in {{}, {"a", "b"}} :
         /\ iuse' = declared
         /\ IF declared # {}
            THEN \E list \in UseCombinations(declared, MaxCombos) :
                    use_combinations' = [none |-> FALSE, list |-> list]
            ELSE use_combinations' = [none |-> TRUE, list |-> <<>>]
    /\ pc' = "acq_kw"
    /\ UNCHANGED <<inputVars, oserror, fileVars, runVars, endVars, results,
                   use_combinations_pass, cmds, stdout, exc>>

\* Lines 15-16 left out: the file is created without the directory being
\* looked for.
Acquire_NoDirCheck(d, okpc, diepc) ==
    /\ fs' = Created(fs, d, nextName)
    /\ open' = Opened(open, d, nextName)
    /\ nextName' = nextName + 1
    /\ pc' = okpc
    /\ UNCHANGED <<stdout, exc>>

\* temporary_package_file(d), lines 12-26, called where the next statement is
\* okpc.  A missing directory is fatal (edie, lines 86-88): SystemExit(1) then
\* leaves the with blocks entered so far, from statement diepc on.
Acquire(d, okpc, diepc) ==
    IF d \notin dirs
    THEN /\ stdout' = Append(stdout, Line("die_dir", <<d>>, 0, 0))
         /\ exc' = TRUE
         /\ pc' = diepc
         /\ UNCHANGED fileVars
    ELSE /\ fs' = Created(fs, d, nextName)
         /\ open' = Opened(open, d, nextName)
         /\ nextName' = nextName + 1
         /\ pc' = okpc
         /\ UNCHANGED <<stdout, exc>>

\* Line 152 moved before line 137: package.accept_keywords's file is acquired
\* before the flag source is asked.
AcquireKeywords_BeforeQuery ==
    /\ \/ /\ pc = "sample" /\ nextName = 1 /\ ~exc
          /\ Acquire(AcceptKeywords, "sample", "exit")
       \/ /\ pc = "acq_kw" /\ nextName > 1
          /\ pc' = "acq_um"
          /\ UNCHANGED <<fileVars, stdout, exc>>
    /\ UNCHANGED <<inputVars, oserror, sourceVars, runVars, endVars, results,
                   use_combinations_pass, cmds>>

\* Line 152.
AcquireKeywords ==
    /\ pc = "acq_kw"
    /\ Acquire(AcceptKeywords, "acq_um", "exit")
    /\ UNCHANGED <<inputVars, oserror, sourceVars, runVars, endVars, results,
                   use_combinations_pass, cmds>>

\* Line 153.
AcquireUnmask ==
    /\ pc = "acq_um"
    /\ Acquire(Unmask, "write_kw", "rel_kw")
    /\ UNCHANGED <<inputVars, oserror, sourceVars, runVars, endVars, results,
                   use_combinations_pass, cmds>>

\* Lines 154-158.
WriteKeywords ==
    /\ pc = "write_kw"
    /\ open' = Written(open, Handle(AcceptKeywords), <<Package, SP, "**">>)
    /\ pc' = "flush_kw"
    /\ UNCHANGED <<inputVars, oserror, sourceVars, runVars, endVars, fs, nextName, results,
                   use_combinations_pass, cmds, stdout, exc>>

\* Line 159.
FlushKeywords ==
    /\ pc = "flush_kw"
    /\ fs' = FlushedFiles(fs, Handle(AcceptKeywords))
    /\ open' = FlushedHandles(open, Handle(AcceptKeywords))
    /\ pc' = "write_um"
    /\ UNCHANGED <<inputVars, oserror, sourceVars, runVars, endVars, nextName, results,
                   use_combinations_pass, cmds, stdout, exc>>

\* Lines 161-165.
WriteUnmask ==
    /\ pc = "write_um"
    /\ open' = Written(open, Handle(Unmask), <<Package>>)
    /\ pc' = "flush_um"
    /\ UNCHANGED <<inputVars, oserror, sourceVars, runVars, endVars, fs, nextName, results,
                   use_combinations_pass, cmds, stdout, exc>>

\* Line 166.
FlushUnmask ==
    /\ pc = "flush_um"
    /\ fs' = FlushedFiles(fs, Handle(Unmask))
    /\ open' = FlushedHandles(open, Handle(Unmask))
    /\ pc' = "matrix"
    /\ UNCHANGED <<inputVars, oserror, sourceVars, runVars, endVars, nextName, results,
                   use_combinations_pass, cmds, stdout, exc>>

\* Lines 168-174: with combinations, the toggle of the loop and its counter.
EnterMatrix ==
    /\ pc = "matrix"
    /\ IF Truthy(use_combinations)
       THEN /\ test_feature_toggle' = MatrixToggle(args.test_feature_scope)
            /\ use_combinations_pass' = 0
            /\ pc' = "loop"
       ELSE /\ pc' = "default"
            /\ UNCHANGED <<test_feature_toggle, use_combinations_pass>>
    /\ UNCHANGED <<inputVars, oserror, sourceVars, fileVars, endVars, results, flags_set, ret,
                   env, emerge_result, cmds, stdout, exc>>

\* Lines 175-185: the next combination, its progress notice, and the call of
\* run_testing; or the end of the loop.
LoopNext ==
    /\ pc = "loop"
    /\ IF use_combinations_pass < Len(use_combinations.list)
       THEN /\ use_combinations_pass' = use_combinations_pass + 1
            /\ flags_set' = use_combinations.list[use_combinations_pass + 1]
            /\ stdout' = Append(stdout,
                    Line("progress", use_combinations.list[use_combinations_pass + 1],
                         use_combinations_pass + 1, Len(use_combinations.list)))
            /\ ret' = "loop"
            /\ pc' = "rt_env"
       ELSE /\ pc' = "default"
            /\ UNCHANGED <<use_combinations_pass, flags_set, stdout, ret>>
    /\ UNCHANGED <<inputVars, oserror, sourceVars, fileVars, endVars, results,
                   test_feature_toggle, env, emerge_result, cmds, exc>>

\* Lines 187-195: the toggle of the default pass, and the default pass when
\* line 192 asks for it.
DefaultPass ==
    /\ pc = "default"
    /\ test_feature_toggle' = DefaultToggle(args.test_feature_scope)
    /\ IF NeedDefaultPass(use_combinations, args.test_feature_scope)
       THEN /\ stdout' = IF Truthy(use_combinations) /\ args.test_feature_scope = "once"
                         THEN Append(stdout, Line("once_notice", <<>>, 0, 0))
                         ELSE stdout
            /\ flags_set' = <<>>
            /\ ret' = "default"
            /\ pc' = "rt_env"
       ELSE /\ pc' = "rel_um"
            /\ UNCHANGED <<stdout, flags_set, ret>>
    /\ UNCHANGED <<inputVars, oserror, sourceVars, fileVars, endVars, results,
                   use_combinations_pass, env, emerge_result, cmds, exc>>


\* run_testing, lines 103-113: the environment of the command, a copy of
\* os.environ with FEATURES composed.
ComposeEnv ==
    /\ pc = "rt_env"
    /\ env' = ComposedFeatures(environ, test_feature_toggle)
    /\ pc' = "rt_acq"
    /\ UNCHANGED <<inputVars, oserror, sourceVars, fileVars, endVars, results,
                   use_combinations_pass, flags_set, test_feature_toggle, ret,
                   emerge_result, cmds, stdout, exc>>

\* Line 115.
AcquireUse ==
    /\ pc = "rt_acq"
    /\ Acquire(PackageUse, "rt_write", "rel_um")
    /\ UNCHANGED <<inputVars, oserror, sourceVars, runVars, endVars, results,
                   use_combinations_pass, cmds>>

\* Lines 117-123 without the condition of line 116.
WriteUse_Unconditional ==
    /\ pc = "rt_write"
    /\ open' = Written(open, Handle(PackageUse),
                       UseLine(args.use_flags_scope, flags_set))
    /\ pc' = "rt_flush"
    /\ UNCHANGED <<inputVars, oserror, sourceVars, runVars, endVars, fs, nextName, results,
                   use_combinations_pass, cmds, stdout, exc>>

\* Lines 116-122: with flags, their line is written; without, nothing is.
WriteUse ==
    /\ pc = "rt_write"
    /\ IF flags_set # <<>>
       THEN /\ open' = Written(open, Handle(PackageUse),
                               UseLine(args.use_flags_scope, flags_set))
            /\ pc' = "rt_flush"
       ELSE /\ pc' = "rt_exec"
            /\ UNCHANGED open
    /\ UNCHANGED <<inputVars, oserror, sourceVars, runVars, endVars, fs, nextName, results,
                   use_combinations_pass, cmds, stdout, exc>>

\* Line 123.
FlushUse ==
    /\ pc = "rt_flush"
    /\ fs' = FlushedFiles(fs, Handle(PackageUse))
    /\ open' = FlushedHandles(open, Handle(PackageUse))
    /\ pc' = "rt_exec"
    /\ UNCHANGED <<inputVars, oserror, sourceVars, runVars, endVars, nextName, results,
                   use_combinations_pass, cmds, stdout, exc>>

\* Line 124, the start of subprocess.run: the command is started with env and
\* reads the configuration files as they are now.
StartEmerge ==
    /\ pc = "rt_exec"
    /\ cmds' = Append(cmds, [cmdline |-> emerge_cmdline, env |-> env, fs |-> fs,
                             rc |-> {}])
    /\ pc' = "rt_wait"
    /\ UNCHANGED <<inputVars, oserror, sourceVars, fileVars, runVars, endVars, results,
                   use_combinations_pass, stdout, exc>>

\* Lines 124-125, the end of subprocess.run: the command has exited with some
\* status, which is kept whatever it is; an empty line is printed.
EmergeReturns ==
    /\ pc = "rt_wait"
    /\ \E status \in 0..MaxExit :
         /\ cmds' = [cmds EXCEPT ![Len(cmds)].rc = {status}]
         /\ emerge_result' = {status}
    /\ stdout' = Append(stdout, Line("blank", <<>>, 0, 0))
    /\ pc' = "rt_rel"
    /\ UNCHANGED <<inputVars, oserror, sourceVars, fileVars, endVars, results,
                   use_combinations_pass, flags_set, test_feature_toggle, ret, env, exc>>

\* The with block of line 115 over a file that is not deleted on close.
ReleaseUse_KeepsFile ==
    /\ pc = "rt_rel"
    /\ open' = ClosedHandles(open, Handle(PackageUse))
    /\ pc' = IF exc THEN "rel_um" ELSE "rt_append"
    /\ UNCHANGED <<inputVars, oserror, sourceVars, runVars, endVars, fs, nextName,
                   results, use_combinations_pass, cmds, stdout, exc>>

\* The end of the with block of line 115, left normally or by an exception.
ReleaseUse ==
    /\ pc = "rt_rel"
    /\ fs' = ClosedFiles(fs, Handle(PackageUse))
    /\ open' = ClosedHandles(open, Handle(PackageUse))
    /\ pc' = IF exc THEN "rel_um" ELSE "rt_append"
    /\ UNCHANGED <<inputVars, oserror, sourceVars, runVars, endVars, nextName, results,
                   use_combinations_pass, cmds, stdout, exc>>

\* subprocess.run(..., check=True): a non-zero status raises out of
\* run_testing and of the with block of lines 151-153.
AppendResult_CheckTrue ==
    /\ pc = "rt_append"
    /\ IF emerge_result = {0}
       THEN /\ results' = Append(results, RunRecord(flags_set, 0, env))
            /\ pc' = IF ret = "loop" THEN "loop" ELSE "rel_um"
            /\ UNCHANGED exc
       ELSE /\ exc' = TRUE
            /\ pc' = "rel_um"
            /\ UNCHANGED results
    /\ UNCHANGED <<inputVars, oserror, sourceVars, fileVars, runVars, endVars,
                   use_combinations_pass, cmds, stdout>>

\* results.insert(0, ...) in place of results.append(...).
AppendResult_Prepend ==
    /\ pc = "rt_append"
    /\ results' = <<RunRecord(flags_set, CHOOSE r \in emerge_result : TRUE, env)>>
                    \o results
    /\ pc' = IF ret = "loop" THEN "loop" ELSE "rel_um"
    /\ UNCHANGED <<inputVars, oserror, sourceVars, fileVars, runVars, endVars,
                   use_combinations_pass, cmds, stdout, exc>>

\* Lines 127-133, and the return to the caller: line 175 after a combination,
\* the end of the outer with block after the default pass.
AppendResult ==
    /\ pc = "rt_append"
    /\ results' = Append(results,
                         RunRecord(flags_set, CHOOSE r \in emerge_result : TRUE, env))
    /\ pc' = IF ret = "loop" THEN "loop" ELSE "rel_um"
    /\ UNCHANGED <<inputVars, oserror, sourceVars, fileVars, runVars, endVars,
                   use_combinations_pass, cmds, stdout, exc>>

\* The end of the with block of lines 151-153, left normally or by
\* SystemExit: package.unmask's file goes first, ...
ReleaseUnmask ==
    /\ pc = "rel_um"
    /\ fs' = ClosedFiles(fs, Handle(Unmask))
    /\ open' = ClosedHandles(open, Handle(Unmask))
    /\ pc' = "rel_kw"
    /\ UNCHANGED <<inputVars, oserror, sourceVars, runVars, endVars, nextName, results,
                   use_combinations_pass, cmds, stdout, exc>>

\* ... then package.accept_keywords's.
ReleaseKeywords ==
    /\ pc = "rel_kw"
    /\ fs' = ClosedFiles(fs, Handle(AcceptKeywords))
    /\ open' = ClosedHandles(open, Handle(AcceptKeywords))
    /\ pc' = IF exc THEN "exit" ELSE "verdict"
    /\ UNCHANGED <<inputVars, oserror, sourceVars, runVars, endVars, nextName, results,
                   use_combinations_pass, cmds, stdout, exc>>

\* Lines 197-200.
CollectFailures ==
    /\ pc = "verdict"
    /\ failures' = Failures(results)
    /\ pc' = "report"
    /\ UNCHANGED <<inputVars, oserror, sourceVars, fileVars, runVars, results,
                   use_combinations_pass, cmds, report_file, stdout, exc, exit_status>>

\* Lines 202-204 under the else of line 210: a report only when all is good.
WriteReport_OnlyOnSuccess ==
    /\ pc = "report"
    /\ report_file' = IF args.report /\ failures = <<>>
                      THEN [written |-> report_file.written + 1, data |-> results]
                      ELSE report_file
    /\ pc' = "final"
    /\ UNCHANGED <<inputVars, oserror, sourceVars, fileVars, runVars, results,
                   use_combinations_pass, cmds, failures, stdout, exc, exit_status>>

\* Lines 202-204: json.dumps keeps the order of the list.
WriteReport ==
    /\ pc = "report"
    /\ report_file' = IF args.report
                      THEN [written |-> report_file.written + 1, data |-> results]
                      ELSE report_file
    /\ pc' = "final"
    /\ UNCHANGED <<inputVars, oserror, sourceVars, fileVars, runVars, results,
                   use_combinations_pass, cmds, failures, stdout, exc, exit_status>>

\* Lines 206-211: with failures, a line for each and edie; without, the
\* function returns and the process ends with status 0.
Conclude ==
    /\ pc = "final"
    /\ IF Len(failures) > 0
       THEN /\ stdout' = stdout \o FailureLines(failures)
                                \o <<Line("die_failures", <<Package>>, 0, 0)>>
            /\ exc' = TRUE
            /\ pc' = "exit"
            /\ UNCHANGED exit_status
       ELSE /\ stdout' = Append(stdout, Line("all_good", <<>>, 0, 0))
            /\ exit_status' = {0}
            /\ pc' = "exited"
            /\ UNCHANGED exc
    /\ UNCHANGED <<inputVars, oserror, sourceVars, fileVars, runVars, results,
                   use_combinations_pass, cmds, failures, report_file>>

\* sys.exit(1) of line 88, or the end of the interpreter on an uncaught
\* OSError, once no with block is left to leave: the exit status is 1.
SystemExit ==
    /\ pc = "exit"
    /\ exit_status' = {1}
    /\ pc' = "exited"
    /\ UNCHANGED <<inputVars, oserror, sourceVars, fileVars, runVars, results,
                   use_combinations_pass, cmds, failures, report_file, stdout, exc>>

Next ==
    \/ Sample
    \/ AcquireKeywords
    \/ AcquireUnmask
    \/ WriteKeywords
    \/ FlushKeywords
    \/ WriteUnmask
    \/ FlushUnmask
    \/ EnterMatrix
    \/ LoopNext
    \/ DefaultPass
    \/ ComposeEnv
    \/ AcquireUse
    \/ WriteUse
    \/ FlushUse
    \/ StartEmerge
    \/ EmergeReturns
    \/ ReleaseUse
    \/ AppendResult
    \/ ReleaseUnmask
    \/ ReleaseKeywords
    \/ CollectFailures
    \/ WriteReport
    \/ Conclude
    \/ SystemExit

Spec == Init /\ [][Next]_vars

\* ------------------------------------------------------ failing file calls
\* The directory and the statement after the with block of the file operation
\* the process is at.
DirAt(at) ==
    IF at \in {"write_kw", "flush_kw", "rel_kw"} THEN AcceptKeywords
    ELSE IF at \in {"write_um", "flush_um", "rel_um"} THEN Unmask
    ELSE PackageUse

\* Where an exception raised at statement at goes first: the __exit__ of the
\* innermost with block it is in, or out of the one it was raised by.
RaisedTo(at) ==
    IF at \in {"rt_write", "rt_flush"} THEN "rt_rel"
    ELSE IF at \in {"write_kw", "flush_kw", "write_um", "flush_um", "rt_rel"} THEN "rel_um"
    ELSE IF at = "rel_um" THEN "rel_kw"
    ELSE "exit"

\* Lines 117, 154, 161: write() raises OSError; nothing has reached the file.
WriteFails ==
    /\ pc \in {"write_kw", "write_um"} \/ (pc = "rt_write" /\ flags_set # <<>>)
    /\ oserror' = Append(oserror, [op |-> "write", dir |-> DirAt(pc)])
    /\ exc' = TRUE
    /\ pc' = RaisedTo(pc)
    /\ UNCHANGED <<inputVars, sourceVars, fileVars, runVars, endVars, results,
                   use_combinations_pass, cmds, stdout>>

\* A flush() wrapped in try/except OSError: pass: the next statement runs.
FlushFails_Swallowed ==
    /\ pc \in {"flush_kw", "flush_um", "rt_flush"}
    /\ \E k \in {0, Len(Handle(DirAt(pc)).buf) - 1} :
         fs' = FlushedFiles(fs, [Handle(DirAt(pc)) EXCEPT !.buf = SubSeq(@, 1, k)])
    /\ oserror' = Append(oserror, [op |-> "flush", dir |-> DirAt(pc)])
    /\ pc' = IF pc = "flush_kw" THEN "write_um"
             ELSE IF pc = "flush_um" THEN "matrix" ELSE "rt_exec"
    /\ UNCHANGED <<inputVars, sourceVars, runVars, endVars, open, nextName, results,
                   use_combinations_pass, cmds, stdout, exc>>

\* Lines 123, 159, 166: flush() raises OSError (a full disk, say) after none
\* or a part of the buffer has reached the file.
FlushFails ==
    /\ pc \in {"flush_kw", "flush_um", "rt_flush"}
    /\ \E k \in {0, Len(Handle(DirAt(pc)).buf) - 1} :
         fs' = FlushedFiles(fs, [Handle(DirAt(pc)) EXCEPT !.buf = SubSeq(@, 1, k)])
    /\ oserror' = Append(oserror, [op |-> "flush", dir |-> DirAt(pc)])
    /\ exc' = TRUE
    /\ pc' = RaisedTo(pc)
    /\ UNCHANGED <<inputVars, sourceVars, runVars, endVars, open, nextName, results,
                   use_combinations_pass, cmds, stdout>>

\* The end of a with block, lines 115 and 151-153: NamedTemporaryFile closes
\* the file, which flushes what is buffered, and unlink() then raises an
\* OSError other than FileNotFoundError (the directory has become read-only,
\* say).  Nothing catches it: the file stays and the error leaves the block.
UnlinkFails ==
    /\ pc \in {"rt_rel", "rel_um", "rel_kw"}
    /\ fs' = FlushedFiles(fs, Handle(DirAt(pc)))
    /\ open' = ClosedHandles(open, Handle(DirAt(pc)))
    /\ oserror' = Append(oserror, [op |-> "unlink", dir |-> DirAt(pc)])
    /\ exc' = TRUE
    /\ pc' = RaisedTo(pc)
    /\ UNCHANGED <<inputVars, sourceVars, runVars, endVars, nextName, results,
                   use_combinations_pass, cmds, stdout>>

\* The tool where file operations may fail, for one inherited environment and
\* one scope (neither is read by the statements that handle files).
InitFaults ==
    /\ Init
    /\ ~environ.has
    /\ args.use_flags_scope = "local"

NextFaults ==
    \/ Next
    \/ WriteFails
    \/ FlushFails
    \/ UnlinkFails

SpecFaults == InitFaults /\ [][NextFaults]_vars


\* ------------------------------------------------- vocabulary of the claims
Policy == args.test_feature_scope
N == Len(use_combinations.list)
Combination(i) == use_combinations.list[i]

\* The inherited FEATURES already holds the word test.
InheritedTest == environ.has /\ InSplit("test", environ.val)

\* A missing directory has aborted the operation.
Fatal == \E i \in 1..Len(stdout) : stdout[i].kind = "die_dir"

\* The with block of lines 151-195 has been left without a fatal abort and
\* without an OSError before its end: every run the operation makes has been
\* made.
AllRunsDone ==
    /\ pc \in {"rel_um", "rel_kw", "verdict", "report", "final", "exit", "exited"}
    /\ ~Fatal
    /\ \A i \in 1..Len(oserror) : oserror[i].dir # PackageUse /\ oserror[i].op = "unlink"

\* An OSError of a file operation has ended the operation.
Crashed == oserror # <<>>

\* Some write() or flush(), or some unlink(), has raised.
WriteError == \E i \in 1..Len(oserror) : oserror[i].op \in {"write", "flush"}
UnlinkError == \E i \in 1..Len(oserror) : oserror[i].op = "unlink"

\* The files the tool itself created in directory d, among files.
Own(files, d) == { f \in files : f.dir = d /\ f \notin fs0 }

\* run_testing is between the creation of its package.use file and its removal.
InRun == pc \in {"rt_write", "rt_flush", "rt_exec", "rt_wait", "rt_rel"}

\* The lines "testing failed with flags: ..." printed so far.
FailedLines == SelectSeq(stdout, LAMBDA l : l.kind = "failed")

\* The Run Records of the runs whose command did not return 0.
FailingRecords == SelectSeq(results, LAMBDA r : r.exit_code # 0)

\* data is the single line "<selector> <flags joined by single spaces>\n".
IsUseLine(data, selector, flags) ==
    /\ Len(data) = 2 * Len(flags) + 2
    /\ data[Len(data)] = NL
    /\ \A i \in 1..(Len(data) - 1) : data[i] # NL
    /\ LET words == Split(data)
       IN  /\ Len(words) = Len(flags) + 1
           /\ words[1] = <<selector>>
           /\ \A i \in 1..Len(flags) : words[i + 1] = <<flags[i]>>

Selector == IF args.use_flags_scope = "global" THEN "*/*" ELSE Package


\* ------------------------------------------------------------------ claims
\* C1, as stated: with policy 'once' and N > 0 combinations, an operation that
\* is not aborted makes exactly N+1 runs, the N combinations in source order
\* and then one run with empty flags, and the last Run Record is the only one
\* with test_feature = true.
C1_OnceOnlyLastHasTest ==
    (AllRunsDone /\ Policy = "once" /\ N > 0) =>
        /\ Len(results) = N + 1
        /\ \A i \in 1..N : results[i].flags = Combination(i)
        /\ results[N + 1].flags = <<>>
        /\ \A i \in 1..(N + 1) : results[i].test_feature <=> (i = N + 1)

\* C1, amended: with policy 'once' and N > 0 combinations, an operation that is
\* not aborted makes exactly N+1 runs, the N combinations in source order and
\* then one run with empty flags (never more, at any time); the last Run
\* Record has test_feature = true, and each of the N before it has
\* test_feature = true exactly when the inherited FEATURES holds the word test.
C1_OnceRuns ==
    (Policy = "once" /\ N > 0) =>
        /\ Len(results) <= N + 1
        /\ Len(cmds) <= N + 1
        /\ \A i \in 1..Len(results) :
             /\ results[i].flags = (IF i <= N THEN Combination(i) ELSE <<>>)
             /\ results[i].test_feature <=> (i = N + 1 \/ InheritedTest)
        /\ AllRunsDone => Len(results) = N + 1

\* C1 witness: policy 'once', two combinations, three runs made, the last with
\* the tests and the first two without.
C1_Witness ==
    /\ pc = "exited" /\ ~Fatal
    /\ Policy = "once" /\ N = 2
    /\ Len(results) = 3
    /\ ~results[1].test_feature /\ ~results[2].test_feature /\ results[3].test_feature
    /\ results[3].flags = <<>>

\* C2, as stated: with policy 'never' every Run Record has test_feature =
\* false, whatever the combinations and whatever the inherited environment.
C2_NeverNoTest ==
    Policy = "never" => \A i \in 1..Len(results) : ~results[i].test_feature

\* C2, amended: with policy 'never' no run enables the tests, and a Run Record
\* has test_feature = true exactly when the inherited FEATURES already holds
\* the word test; with no such word inherited every Run Record has
\* test_feature = false, for any number of combinations.
C2_NeverOnlyInherited ==
    Policy = "never" =>
        /\ \A i \in 1..Len(results) : results[i].test_feature <=> InheritedTest
        /\ pc \in {"rt_acq", "rt_write", "rt_flush", "rt_exec", "rt_wait", "rt_rel",
                   "rt_append"} => ~test_feature_toggle

\* C2 witness: policy 'never', an inherited FEATURES of another word, and runs
\* for combinations and for no combinations recorded without the tests.
C2_Witness ==
    /\ pc = "exited" /\ ~Fatal
    /\ Policy = "never"
    /\ environ.has /\ ~InheritedTest
    /\ Len(results) >= 1
    /\ \A i \in 1..Len(results) : ~results[i].test_feature

\* C3: with policy 'always' and N > 0 combinations there are never more than
\* N runs, an operation that is not aborted makes exactly N, each is the run
\* of its combination (so none is a default run with empty flags), and every
\* Run Record has test_feature = true.
C3_AlwaysRuns ==
    (Policy = "always" /\ N > 0) =>
        /\ Len(results) <= N
        /\ Len(cmds) <= N
        /\ \A i \in 1..Len(results) :
             /\ results[i].flags = Combination(i)
             /\ results[i].flags # <<>>
             /\ results[i].test_feature
        /\ AllRunsDone => Len(results) = N /\ Len(cmds) = N

\* C3 witness: policy 'always', two combinations, the operation over with two
\* Run Records.
C3_Witness ==
    /\ pc = "exited" /\ ~Fatal
    /\ Policy = "always" /\ N = 2
    /\ Len(results) = 2
    /\ ~InheritedTest
    /\ results[1].test_feature /\ results[2].test_feature

\* C4, as stated: with no declared flags the sampling is skipped and exactly
\* one run is made, with empty flags, whose test_feature is true under 'once'
\* and 'always' and false under 'never'.
C4_NoFlagsOneRun ==
    (AllRunsDone /\ iuse = {}) =>
        /\ use_combinations.none
        /\ Len(results) = 1
        /\ results[1].flags = <<>>
        /\ results[1].test_feature <=> Policy \in {"once", "always"}

\* C4, amended: with no declared flags the sampling is skipped and exactly one
\* run is made, with empty flags, whose test_feature is true under 'once' and
\* 'always', and under 'never' is true exactly when the inherited FEATURES
\* already holds the word test.
C4_NoFlagsOneRunInherited ==
    (pc # "sample" /\ iuse = {}) =>
        /\ use_combinations.none
        /\ Len(results) <= 1
        /\ Len(cmds) <= 1
        /\ \A i \in 1..Len(results) :
             /\ results[i].flags = <<>>
             /\ results[i].test_feature <=> (Policy \in {"once", "always"} \/ InheritedTest)
        /\ AllRunsDone => Len(results) = 1

\* C4 witness: no declared flags, policy 'always', the operation over with its
\* one Run Record, which has the tests.
C4_Witness ==
    /\ pc = "exited" /\ ~Fatal
    /\ iuse = {} /\ use_combinations.none
    /\ Policy = "always" /\ ~InheritedTest
    /\ Len(results) = 1 /\ results[1].flags = <<>> /\ results[1].test_feature


\* C5, as stated: whenever the tool has exited, its exit status is 0 exactly
\* when every Run Record has exit_code 0; otherwise it is 1 and there is one
\* "testing failed" line for each failing Run Record, with its flags.
C5_ExitZeroIffAllPassed ==
    pc = "exited" =>
        /\ exit_status = {0} <=> \A i \in 1..Len(results) : results[i].exit_code = 0
        /\ exit_status # {0} =>
             /\ exit_status = {1}
             /\ Len(FailedLines) = Len(FailingRecords)
             /\ \A i \in 1..Len(FailedLines) :
                  FailedLines[i].flags = FailingRecords[i].flags

\* C5, amended: an execution that is aborted neither by a missing
\* configuration directory nor by an OSError of an overlay file operation
\* exits with 0 exactly when every Run Record has exit_code 0, and otherwise
\* with 1 after one "testing failed" line for each failing Run Record, with
\* its flags, in order; an execution aborted in one of these two ways exits
\* with 1 whatever the Run Records are (there is none after a missing
\* directory), and prints no such line.
C5_ExitStatus ==
    pc = "exited" =>
        IF Fatal \/ Crashed
        THEN /\ exit_status = {1}
             /\ Fatal => results = <<>>
             /\ FailedLines = <<>>
        ELSE /\ exit_status = {0} <=> \A i \in 1..Len(results) : results[i].exit_code = 0
             /\ exit_status \in {{0}, {1}}
             /\ Len(FailedLines) = Len(FailingRecords)
             /\ \A i \in 1..Len(FailedLines) :
                  FailedLines[i].flags = FailingRecords[i].flags

\* C5 witness: the tool has exited with 1 after three runs of which the first
\* and the last failed, and has printed the two flag sets.
C5_Witness ==
    /\ pc = "exited" /\ ~Fatal /\ ~Crashed
    /\ exit_status = {1}
    /\ Len(results) = 3
    /\ results[1].exit_code # 0 /\ results[2].exit_code = 0 /\ results[3].exit_code # 0
    /\ Len(FailedLines) = 2
    /\ FailedLines[1].flags = results[1].flags /\ FailedLines[2].flags = results[3].flags

\* The number of runs the operation makes: one per combination, and the
\* default pass when there is no combination or the policy is 'once'.
RunsToMake == N + (IF N = 0 \/ Policy = "once" THEN 1 ELSE 0)

\* C6: a command's non-zero exit status does not stop the matrix: whatever the
\* statuses, an operation that is not aborted by a missing directory makes and
\* records every run (each combination, and the default pass when the policy
\* or the lack of combinations calls for it), and nothing of the failure is
\* surfaced (no failures list, no "testing failed" line, no exit status)
\* before every run has been made and recorded.
C6_FailureDoesNotStopMatrix ==
    ~Fatal =>
        /\ AllRunsDone => Len(results) = RunsToMake /\ Len(cmds) = RunsToMake
        /\ (failures # <<>> \/ FailedLines # <<>> \/ exit_status # {} \/ exc) =>
             /\ Len(results) = RunsToMake
             /\ Len(cmds) = RunsToMake
             /\ \A i \in 1..Len(cmds) : cmds[i].rc # {}

\* C6 witness: the first of three runs failed, the other two were made and
\* recorded all the same, and the tool then exited with 1.
C6_Witness ==
    /\ pc = "exited" /\ ~Fatal
    /\ Len(results) = 3 /\ RunsToMake = 3
    /\ results[1].exit_code # 0
    /\ results[2].exit_code = 0 /\ results[3].exit_code = 0
    /\ exit_status = {1}

\* C7: once the tool has exited, with status 0, with the failing verdict or
\* after a fatal abort for a missing directory (or after a failed write or
\* flush), the files in the three directories are the files that were there
\* before it started, unless a deletion itself has failed, and no temporary
\* file is left open; the files that were there are never touched.
C7_NoLeakedOverlay ==
    /\ (pc = "exited" /\ ~UnlinkError) => fs = fs0
    /\ pc = "exited" => open = {}
    /\ fs0 \subseteq fs

\* C7 witness: the operation was aborted for a missing package.unmask
\* directory after its package.accept_keywords file had been created, and has
\* exited with the directories as they were, files of an earlier invocation
\* included.
C7_Witness ==
    /\ pc = "exited" /\ Fatal /\ ~Crashed
    /\ Unmask \notin dirs
    /\ nextName = 2
    /\ fs0 # {} /\ fs = fs0


C9_UseFileAlwaysHoldsLine ==
    (InRun /\ flags_set # <<>>) =>
        \A f \in Own(fs, PackageUse) : IsUseLine(f.data, Selector, flags_set)

\* C9, amended: in a run with a non-empty flag combination the tool's file in
\* package.use exists empty from its creation until the flush of line 123,
\* and from that flush until its removal holds exactly the line
\* "<selector> <flags>", the selector being */* under global scope and the
\* atom under local scope; the flush comes before the external build command
\* is started, which finds the file with that line.
C9_UseFileHoldsLineOnceFlushed ==
    (InRun /\ flags_set # <<>>) =>
        /\ Cardinality(Own(fs, PackageUse)) = 1
        /\ \A f \in Own(fs, PackageUse) :
             IF pc \in {"rt_write", "rt_flush"}
             THEN f.data = <<>>
             ELSE IsUseLine(f.data, Selector, flags_set)
        /\ pc = "rt_wait" =>
             /\ Cardinality(Own(cmds[Len(cmds)].fs, PackageUse)) = 1
             /\ \A f \in Own(cmds[Len(cmds)].fs, PackageUse) :
                  IsUseLine(f.data, Selector, flags_set)

\* C9 witness: under global scope the command of the combination a -b is
\* running, and the tool's file in package.use holds "*/* a -b".
C9_Witness ==
    /\ pc = "rt_wait" /\ flags_set = <<"a", "-b">>
    /\ args.use_flags_scope = "global"
    /\ \E f \in Own(fs, PackageUse) : f.data = <<"*/*", SP, "a", SP, "-b", NL>>

\* The flags of the i-th run the operation makes.
FlagsOfRun(i) == IF i <= N THEN Combination(i) ELSE <<>>

\* C10: the results list holds one Run Record per external command that has
\* returned, in the order the commands were run: the i-th record is that of
\* the i-th command, which ran with the i-th combination of the source (or,
\* past the last combination, with empty flags) in package.use, and its
\* exit_code is the status that command returned; the report, when written,
\* is that list in that order.
C10_ResultsInExecutionOrder ==
    /\ Len(results) <= Len(cmds)
    /\ Len(cmds) <= Len(results) + 1
    /\ Len(cmds) = Len(results) + 1 => pc \in {"rt_wait", "rt_rel", "rt_append"}
    /\ \A i \in 1..Len(results) :
         /\ cmds[i].rc = {results[i].exit_code}
         /\ results[i].flags = FlagsOfRun(i)
         /\ \A f \in Own(cmds[i].fs, PackageUse) :
              IF results[i].flags = <<>> THEN f.data = <<>>
              ELSE IsUseLine(f.data, Selector, results[i].flags)
    /\ report_file.written > 0 => report_file.data = results
    /\ (pc = "exited" /\ ~Fatal /\ args.report) =>
         report_file.written = 1 /\ Len(report_file.data) = Len(cmds)

\* C10 witness: three commands were run for two different combinations and
\* the default pass, the first failed and the second did not, and the report
\* holds the three records in that order.
C10_Witness ==
    /\ pc = "exited" /\ args.report
    /\ Len(cmds) = 3 /\ Len(report_file.data) = 3
    /\ Combination(1) # Combination(2)
    /\ cmds[1].rc = {1} /\ cmds[2].rc = {0}
    /\ report_file.data[1].exit_code = 1 /\ report_file.data[2].exit_code = 0
    /\ report_file.data[1].flags = Combination(1)
    /\ report_file.data[3].flags = <<>>


\* C11: when one of the three directories is missing, no external command is
\* ever started and no Run Record, failures list, verdict or report is ever
\* produced: the operation is aborted by edie, at the latest when the first
\* run looks for package.use, and the process exits with 1.
C11_MissingDirAbortsBeforeAnyRun ==
    dirs # Categories =>
        /\ cmds = <<>>
        /\ results = <<>>
        /\ pc \notin {"rt_write", "rt_flush", "rt_exec", "rt_wait", "rt_rel", "rt_append",
                      "verdict", "report", "final"}
        /\ report_file.written = 0
        /\ \A i \in 1..Len(stdout) : stdout[i].kind \notin {"all_good", "failed", "blank"}
        /\ pc \in {"exit", "exited"} => Fatal
        /\ pc = "exited" => exit_status = {1}

\* C11 witness: package.use alone is missing; the two operation-scoped files
\* were created, the first run found the directory missing, and the process
\* has exited with 1 without having started a command.
C11_Witness ==
    /\ pc = "exited"
    /\ dirs = {AcceptKeywords, Unmask}
    /\ nextName = 3
    /\ Fatal /\ exit_status = {1}
    /\ cmds = <<>> /\ results = <<>>

\* C12, as stated: when the only file operations that fail are deletions at
\* the end of a with block, the operation goes on as if none had failed:
\* every run is made and recorded, the verdict is reached, and the exit status
\* is 0 exactly when every Run Record has exit_code 0.
C12_UnlinkFailureSwallowed ==
    (pc = "exited" /\ ~Fatal /\ UnlinkError /\ ~WriteError) =>
        /\ Len(results) = RunsToMake
        /\ Len(cmds) = Len(results)
        /\ exit_status = {0} <=> \A i \in 1..Len(results) : results[i].exit_code = 0

\* The directive a command must find in the tool's file of directory d, for
\* a run with the given flags.
Directive(d, flags) ==
    IF d = AcceptKeywords THEN <<Package, SP, "**">>
    ELSE IF d = Unmask THEN <<Package>>
    ELSE IF flags = <<>> THEN <<>>
    ELSE <<Selector, SP>> \o JoinSp(flags) \o <<NL>>

\* C13: a write or flush that fails ends the operation: from then on only the
\* with blocks are left and the process exits with 1, without verdict or
\* report; the command of that run is not started, so that every command ever
\* started found each of the tool's three files with its whole directive; and
\* every temporary file is removed, but those whose own deletion failed.
C13_WriteFailureAborts ==
    /\ \A i \in 1..Len(cmds) : \A d \in Categories :
         /\ Cardinality(Own(cmds[i].fs, d)) = 1
         /\ \A f \in Own(cmds[i].fs, d) : f.data = Directive(d, FlagsOfRun(i))
    /\ WriteError =>
         /\ pc \in {"rt_rel", "rel_um", "rel_kw", "exit", "exited"}
         /\ exc
         /\ Len(cmds) = Len(results)
         /\ failures = <<>> /\ report_file.written = 0
         /\ \A i \in 1..Len(stdout) : stdout[i].kind \notin {"all_good", "failed"}
         /\ pc = "exited" =>
              /\ exit_status = {1}
              /\ \A f \in fs \ fs0 :
                   \E i \in 1..Len(oserror) :
                      oserror[i].op = "unlink" /\ oserror[i].dir = f.dir

\* C13 witness: the flush of the second run's package.use line failed; its
\* command was not started, the three files were removed, and the process has
\* exited with 1 with the one Run Record of the first run.
C13_Witness ==
    /\ pc = "exited"
    /\ oserror = <<[op |-> "flush", dir |-> PackageUse]>>
    /\ Len(results) = 1 /\ Len(cmds) = 1 /\ N = 2
    /\ fs = fs0 /\ exit_status = {1}


\* C14: at every instant each of the three directories holds at most one file
\* created by the tool, and the package.use file a command finds is the one
\* of its own run, with that run's line or, for empty flags, nothing: what an
\* earlier run wrote has been removed with its file.
C14_OneOverlayPerCategory ==
    /\ \A d \in Categories :
         /\ Cardinality(Own(fs, d)) <= 1
         /\ Cardinality({h \in open : h.dir = d}) <= 1
    /\ \A i \in 1..Len(cmds) :
         /\ Cardinality(Own(cmds[i].fs, PackageUse)) = 1
         /\ \A f \in Own(cmds[i].fs, PackageUse) :
              /\ f.name = i + 2
              /\ f.data = (IF FlagsOfRun(i) = <<>> THEN <<>>
                           ELSE <<Selector, SP>> \o JoinSp(FlagsOfRun(i)) \o <<NL>>)
    /\ pc \in {"rt_env", "rt_acq", "rt_append", "loop", "default"} =>
         Own(fs, PackageUse) = {}

\* C14 witness: the command of the second run is running after a first run
\* with other flags, and the tool's only file in package.use is a new one with
\* the line of the second run.
C14_Witness ==
    /\ pc = "rt_wait" /\ Len(cmds) = 2
    /\ FlagsOfRun(1) = <<"a", "-b">> /\ FlagsOfRun(2) = <<"-a">>
    /\ args.use_flags_scope = "local"
    /\ Own(fs, PackageUse) =
         {[dir |-> PackageUse, name |-> 4, data |-> <<Package, SP, "-a", NL>>]}

\* An operation-scoped file is in place: the tool's one file in directory d,
\* with the directive for the atom, written once.
InPlace(files, d) ==
    /\ Cardinality(Own(files, d)) = 1
    /\ \A f \in Own(files, d) :
         f.data = (IF d = AcceptKeywords THEN <<Package, SP, "**">> ELSE <<Package>>)

\* C15: the package.accept_keywords and package.unmask files are written and
\* flushed once, before the first run: from the statement after the second
\* flush until the with block of lines 151-195 is left, both are in place,
\* each with its one directive for the atom, and so every external command
\* finds them; they are removed only after the last run has been recorded,
\* and both are gone when the failures are collected.
C15_OperationOverlaysSpanRuns ==
    /\ pc \in {"matrix", "loop", "default", "rt_env", "rt_acq", "rt_write", "rt_flush",
               "rt_exec", "rt_wait", "rt_rel", "rt_append"} =>
         InPlace(fs, AcceptKeywords) /\ InPlace(fs, Unmask)
    /\ \A i \in 1..Len(cmds) :
         InPlace(cmds[i].fs, AcceptKeywords) /\ InPlace(cmds[i].fs, Unmask)
    /\ (~Fatal /\ pc \in {"rel_kw", "verdict", "report", "final", "exit", "exited"}) =>
         /\ Own(fs, Unmask) = {}
         /\ Len(results) = RunsToMake /\ Len(cmds) = RunsToMake
    /\ pc \in {"verdict", "report", "final"} \/ failures # <<>> =>
         Own(fs, AcceptKeywords) = {} /\ Own(fs, Unmask) = {}

\* C15 witness: the command of the third run is running and finds both files
\* with their directives.
C15_Witness ==
    /\ pc = "rt_wait" /\ Len(cmds) = 3
    /\ \E f \in cmds[3].fs :
         f.dir = AcceptKeywords /\ f.name = 1 /\ f.data = <<Package, SP, "**">>
    /\ \E f \in cmds[3].fs : f.dir = Unmask /\ f.name = 2 /\ f.data = <<Package>>

\* C16, as stated: the two operation-scoped files are acquired, and their
\* directories looked for, before the flag source is asked: once the source
\* has answered, both files exist or the operation has been aborted.
C16_OverlaysBeforeQuery ==
    pc # "sample" =>
        \/ Fatal
        \/ Own(fs, AcceptKeywords) # {} /\ Own(fs, Unmask) # {}
        \/ pc \in {"rel_kw", "verdict", "report", "final", "exit", "exited"}

\* The states of the operation, in the order the code goes through them.
Phase ==
    IF pc = "sample" THEN "Idle/Sampling"
    ELSE IF pc \in {"acq_kw", "acq_um", "write_kw", "flush_kw", "write_um", "flush_um",
                    "matrix"}
         THEN "AcquiringOverlays"
    ELSE IF pc = "loop" \/ (pc \in {"rt_env", "rt_acq", "rt_write",
                "rt_flush", "rt_exec", "rt_wait", "rt_rel", "rt_append"} /\ ret = "loop")
         THEN "RunningMatrix"
    ELSE IF pc = "default" \/ pc \in {"rt_env", "rt_acq", "rt_write", "rt_flush",
                "rt_exec", "rt_wait", "rt_rel", "rt_append"}
         THEN "RunningDefaultPass"
    ELSE IF pc \in {"rel_um", "rel_kw"} THEN "ReleasingOverlays"
    ELSE IF exc THEN "Fatal"
    ELSE "Verdicted"

\* C16, amended: the order is Idle, Sampling, OverlaysAcquired, RunningMatrix,
\* RunningDefaultPass, OverlaysReleased, Verdicted: the flag source is asked
\* first, while nothing is acquired and no directory has been looked for; the
\* two operation-scoped files are acquired after it has answered and are both
\* in place during the matrix and the default pass, which comes after the
\* last combination; the verdict comes after their release.
C16_QueryBeforeOverlays ==
    /\ Phase = "Idle/Sampling" =>
         fs = fs0 /\ open = {} /\ nextName = 1 /\ stdout = <<>> /\ ~exc
    /\ Phase = "AcquiringOverlays" => cmds = <<>> /\ nextName <= 3
    /\ Phase = "RunningMatrix" =>
         /\ Truthy(use_combinations)
         /\ Own(fs, AcceptKeywords) # {} /\ Own(fs, Unmask) # {}
         /\ Len(results) <= N
         /\ use_combinations_pass \in {Len(results), Len(results) + 1}
    /\ Phase = "RunningDefaultPass" =>
         /\ Own(fs, AcceptKeywords) # {} /\ Own(fs, Unmask) # {}
         /\ use_combinations_pass = N
         /\ Len(results) = N
    /\ Phase = "Verdicted" =>
         /\ fs = fs0 /\ open = {}
         /\ Len(results) = RunsToMake
    /\ Phase = "Fatal" /\ Fatal => results = <<>>

\* C16 witness: the flag source has answered with two combinations, and
\* nothing has been acquired yet nor any directory looked for.
C16_Witness ==
    /\ pc = "acq_kw"
    /\ N = 2
    /\ fs = fs0 /\ open = {} /\ nextName = 1
    /\ dirs = {}

\* C17: the run with empty flags is made exactly when there is no combination
\* (no declared flags, or an empty answer of the source) or the policy is
\* 'once': an operation that is not aborted makes N + 1 runs then, and N
\* otherwise, under 'never' with N > 0 as well; the run with empty flags is
\* the last one, and every run before it has flags.
C17_DefaultPassWhen ==
    /\ \A i \in 1..Len(results) :
         results[i].flags = <<>> <=> (i = N + 1 /\ (N = 0 \/ Policy = "once"))
    /\ \A i \in 1..Len(cmds) : i <= N \/ (i = N + 1 /\ (N = 0 \/ Policy = "once"))
    /\ AllRunsDone =>
         /\ Len(results) = (IF N = 0 \/ Policy = "once" THEN N + 1 ELSE N)
         /\ (\E i \in 1..Len(results) : results[i].flags = <<>>)
              <=> (N = 0 \/ Policy = "once")

\* C17 witness: under 'never' with two combinations the operation is over
\* with two runs, none with empty flags.
C17_Witness ==
    /\ pc = "exited" /\ ~Fatal
    /\ Policy = "never" /\ N = 2
    /\ Len(results) = 2
    /\ results[1].flags # <<>> /\ results[2].flags # <<>>


\* enableTests of the i-th run: the policy is 'always', or the run is the
\* default pass and the policy is 'once'.
TestsEnabled(i) == Policy = "always" \/ (i = N + 1 /\ Policy = "once")

\* What run_testing adds for the i-th run: the five safety features and,
\* when the tests are enabled, test, each after a single space.
AddedWords(i) ==
    <<"multilib-strict", SP, "collision-protect", SP, "sandbox", SP, "userpriv",
      SP, "usersandbox">> \o (IF TestsEnabled(i) THEN <<SP, "test">> ELSE <<>>)

\* C18: the FEATURES value of every external command is the inherited value,
\* when there is one, then a space, then the five safety features and, only
\* when the tests are enabled for that run, 'test', whatever the number of
\* the run, so nothing added for an earlier run is in it; os.environ keeps one
\* of the inherited values.
C18_FeaturesAppended ==
    /\ environ \in InheritedFeatures
    /\ \A i \in 1..Len(cmds) :
         /\ cmds[i].env =
              (IF environ.has THEN environ.val \o <<SP>> ELSE <<>>) \o AddedWords(i)
         /\ cmds[i].cmdline = emerge_cmdline

\* C18 witness: under 'once' the third command, of the default pass, is
\* running with the inherited ccache, the safety features and test, after two
\* commands that ran without test.
C18_Witness ==
    /\ pc = "rt_wait" /\ Len(cmds) = 3
    /\ Policy = "once"
    /\ environ = [has |-> TRUE, val |-> <<"ccache">>]
    /\ Split(cmds[1].env) = <<<<"ccache">>, <<"multilib-strict">>,
          <<"collision-protect">>, <<"sandbox">>, <<"userpriv">>, <<"usersandbox">>>>
    /\ cmds[2].env = cmds[1].env
    /\ cmds[3].env = cmds[1].env \o <<SP, "test">>

\* The piece w stands alone in s: it is a whole word of s.
IsWordOf(w, s) ==
    \E i \in 1..Len(s) :
       /\ s[i] = w
       /\ i = 1 \/ IsSpace(s[i - 1])
       /\ i = Len(s) \/ IsSpace(s[i + 1])

\* C19: a Run Record's test_feature is true exactly when test is a whole word
\* of the FEATURES value its command was run with, that is exactly when the
\* tests were enabled for the run or test is a word of the inherited FEATURES.
C19_TestFeatureIffInFeatures ==
    \A i \in 1..Len(results) :
       /\ results[i].test_feature <=> IsWordOf("test", cmds[i].env)
       /\ results[i].test_feature <=>
            (TestsEnabled(i) \/ (environ.has /\ IsWordOf("test", environ.val)))

\* C19 witness: under 'never' with test-fail-continue inherited, a run is
\* recorded with test_feature false although its FEATURES holds the letters
\* test.
C19_Witness ==
    /\ Policy = "never"
    /\ environ = [has |-> TRUE, val |-> <<"test", "-fail-continue">>]
    /\ Len(results) = 1
    /\ ~results[1].test_feature
    /\ \E k \in 1..Len(cmds[1].env) : cmds[1].env[k] = "test"

\* C20: the report is written at most once, and only when a path is given,
\* after the last run has been recorded and the three files released, and
\* before the process exits; when a path is given, an operation aborted
\* neither by a missing directory nor by an OSError of an overlay file has
\* written it by the time it exits, with status 0 or 1, and it holds the whole
\* results list; an aborted operation never writes it.
C20_ReportOnceAtEnd ==
    /\ report_file.written <= 1
    /\ report_file.written = 1 =>
         /\ args.report
         /\ ~Fatal /\ ~Crashed
         /\ pc \in {"final", "exit", "exited"}
         /\ fs = fs0 /\ open = {}
         /\ report_file.data = results
         /\ Len(results) = RunsToMake /\ Len(cmds) = RunsToMake
         /\ \A i \in 1..Len(cmds) : cmds[i].rc # {}
    /\ (args.report /\ ~Fatal /\ ~Crashed /\ pc \in {"final", "exit", "exited"}) =>
         report_file.written = 1
    /\ (exit_status = {} /\ report_file.written = 1) => pc \in {"final", "exit"}
    /\ (~args.report \/ Fatal \/ Crashed) => report_file.written = 0

\* C20 witness: the process has exited with 1 after a failing run, and the
\* report holds the three Run Records.
C20_Witness ==
    /\ pc = "exited" /\ exit_status = {1}
    /\ args.report /\ report_file.written = 1
    /\ Len(report_file.data) = 3
    /\ report_file.data[2].exit_code # 0
    /\ report_file.data = results

====
